---------------------------- MODULE Spec2Model ----------------------------
(***************************************************************************)
(* Model of libwavesync/chunk_player.py: the ChunkPlayer coroutine that    *)
(* pops (cmd, item) events from chunk_queue.chunk_list and plays audio     *)
(* chunks in sync, together with the producer that fills the queue.        *)
(*                                                                         *)
(* Time is counted in microseconds (integers), so 1 ms = 1000 and the      *)
(* float arithmetic of the source on seconds becomes exact arithmetic.     *)
(* The coroutine runs atomically between two "yield from" points; pc names *)
(* the point at which it is suspended ("run" = at the head of the while    *)
(* loop, not suspended, so nothing else can run there).                    *)
(***************************************************************************)
EXTENDS Integers, Sequences, FiniteSets, TLC

\* ---------------------------------------------------------------- bounds
\* Number of events the producer enqueues in one run.
MaxEvents == 3

\* ------------------------------------------------------ program constants
CMD_CFG == "CMD_CFG"
CMD_DROPS == "CMD_DROPS"
CMD_AUDIO == "CMD_AUDIO"

\* self.audio_cfg = None, self.stream = None, cfg = None
None == [none |-> TRUE]

\* one_msec = 1/1000.0 (seconds), in microseconds
one_msec == 1000
\* max_delay = 5 (seconds) before the first configuration
InitialMaxDelay == 5000000
\* the 0.2 (seconds) of the maximum sensible delay
MaxDelayBase == 200000
\* if item > 200: huge packet loss
HugeLoss == 200
\* if times > 100: the output is stuck
MaxRetries == 100
\* if recent > 200: main status line
StatusEvery == 200

\* ------------------------------------------------------------ input sets
\* Two stream configurations (the dicts carried by CMD_CFG).
CfgA == [sample |-> 16, channels |-> 2, rate |-> 44100, chunk_size |-> 4096, latency_msec |-> 100]
CfgB == [sample |-> 24, channels |-> 2, rate |-> 48000, chunk_size |-> 6144, latency_msec |-> 50]
Configs == {CfgA, CfgB}

\* Packet-loss counts carried by CMD_DROPS: both sides of the 200 boundary.
DropCounts == {HugeLoss, HugeLoss + 1}

\* Sender timestamp (mark) of audio chunks, microseconds.
Marks == {10000000}

\* Constructor arguments: tolerance and sink_latency, microseconds.
Tolerances == {0, 100000}
SinkLatencies == {100000}

\* Delays (desired_time - now) the clock readings below produce.
Delays == {-150000, -90000, -50000, 2000, 400000, 500000}

\* datetime.utcnow().timestamp() readings, microseconds.
Nows == {m - s - d : m \in Marks, s \in SinkLatencies, d \in Delays}

\* random.random() draws in [0, 1): r / RandomDen.
RandomDen == 10
Randoms == {0, 5, 9}

\* stream.get_write_available() answers, in frames.
DeviceFrames == {1023, 1024}

\* How many consecutive capacity polls the device stays full for, decided by
\* the hardware when a chunk reaches the output writer. NeverRoom is more
\* polls than the writer ever makes for one chunk: a device that has no room.
NeverRoom == MaxRetries + 2
StallLengths == {0, 1, NeverRoom}

\* ------------------------------------------------------------- variables
VARIABLES
    chunk_list,         \* chunk_queue.chunk_list: deque of (cmd, item)
    chunk_available,    \* chunk_queue.chunk_available: asyncio.Event flag
    recoveries,         \* number of chunk_queue.do_recovery() calls
    tolerance,          \* self.tolerance
    sink_latency,       \* self.sink_latency
    audio_cfg,          \* self.audio_cfg
    stream,             \* self.stream: None or the parameters it was opened with
    open_streams,       \* device: output streams PyAudio holds open
    peak_streams,       \* history: the most streams ever open at once
    silence_cache,      \* self.silence_cache: None or the cached buffer's length
    silence_to_insert,  \* self.silence_to_insert
    stat_time_drops,    \* self.stat_time_drops
    stat_output_delays, \* self.stat_output_delays
    stat_total_delay,   \* self.stat_total_delay
    frame_size,         \* self.frame_size
    chunk_frames,       \* self.chunk_frames: the quotient num / den
    pc,                 \* where the coroutine is suspended
    cnt,                \* local cnt
    recent,             \* local recent
    max_delay,          \* local max_delay
    delay,              \* local delay
    chunk,              \* local chunk (payload being played)
    times,              \* local times
    buffer_space,       \* local buffer_space
    stall,              \* device: capacity polls it will still answer "full"
    delays_before,      \* history: stat_output_delays when the output loop was entered
    stat_lines,         \* number of "STAT:" lines printed
    produced,           \* number of events the producer has enqueued
    enqueued,           \* history: payloads of the CMD_AUDIO events enqueued
    last_cfg,           \* history: payload of the latest CMD_CFG enqueued
    written,            \* history: payloads passed to stream.write
    error               \* exception that ended the coroutine, or "none"

vars == << chunk_list, chunk_available, recoveries, tolerance, sink_latency,
           audio_cfg, stream, open_streams, peak_streams, silence_cache,
           silence_to_insert, stat_time_drops,
           stat_output_delays, stat_total_delay, frame_size, chunk_frames,
           pc, cnt, recent, max_delay, delay, chunk, times, buffer_space,
           stall, delays_before, stat_lines, produced, enqueued, last_cfg, written, error >>

queue_vars == << chunk_list, chunk_available, recoveries >>
\* what neither the loop nor the producer assigns
config_vars == << tolerance, sink_latency, silence_cache >>
device_vars == << audio_cfg, stream, open_streams, peak_streams, frame_size,
                  chunk_frames, max_delay >>
stat_vars == << stat_time_drops, stat_output_delays, stat_total_delay, stat_lines >>
count_vars == << cnt, recent >>
write_vars == << delay, chunk, times, buffer_space, stall, delays_before >>
producer_vars == << produced, enqueued, last_cfg >>

\* The suspension points of the coroutine (every "yield from").
Suspended == {"wait", "latency_sleep", "pre_write_sleep", "retry_sleep", "stuck_sleep"}

NoChunk == [id |-> 0, len |-> 0]

\* Chunk payload lengths in bytes.
PayloadLens == {4096}

\* ------------------------------------------------------------- clear_state
\* for cmd, item in chunk_list: if cmd == CMD_CFG: cfg = item; break
find_cfg(list) ==
    LET hits == {i \in 1..Len(list) : list[i].cmd = CMD_CFG}
    IN  IF hits = {} THEN None
        ELSE list[CHOOSE i \in hits : \A j \in hits : i <= j].item

\* the append without the chunk_list.clear() before it
cleared_list_not_cleared(list) ==
    LET cfg == find_cfg(list)
    IN  IF cfg # None THEN Append(list, [cmd |-> CMD_CFG, item |-> cfg]) ELSE list

\* chunk_list.clear(); if cfg is not None: chunk_list.append((CMD_CFG, cfg))
cleared_list(list) ==
    LET cfg == find_cfg(list)
    IN  IF cfg # None THEN << [cmd |-> CMD_CFG, item |-> cfg] >> ELSE << >>

\* clear_state that forgets to reset silence_to_insert
clear_state_keeps_silence(s) ==
    [chunk_list |-> cleared_list(s.chunk_list),
     silence_to_insert |-> s.silence_to_insert,
     recoveries |-> s.recoveries + 1]

\* clear_state(), on the fields it touches:
\* s = [chunk_list, silence_to_insert, recoveries]
clear_state(s) ==
    [chunk_list |-> cleared_list(s.chunk_list),
     silence_to_insert |-> 0,
     recoveries |-> s.recoveries + 1]

\* pop() in place of popleft(): the event is taken from the wrong end
pop_right(list) ==
    [cmd |-> list[Len(list)].cmd, item |-> list[Len(list)].item,
     rest |-> SubSeq(list, 1, Len(list) - 1)]

\* cmd, item = chunk_list.popleft(): the event and what stays in the deque
popleft(list) ==
    [cmd |-> Head(list).cmd, item |-> Head(list).item, rest |-> Tail(list)]

\* The fields clear_state works on, once the current event is popped.
popped == [chunk_list |-> popleft(chunk_list).rest,
           silence_to_insert |-> silence_to_insert,
           recoveries |-> recoveries]

\* ------------------------------------------------------------ _open_stream
\* frame_size = 3 * channels if sample == 24 else 2 * channels
frame_size_of(cfg) ==
    IF cfg.sample = 24 THEN 3 * cfg.channels ELSE 2 * cfg.channels

format_of(cfg) == IF cfg.sample = 24 THEN "paInt24" ELSE "paInt16"

\* self.chunk_frames = chunk_size / frame_size (true division)
chunk_frames_of(cfg) == [num |-> cfg.chunk_size, den |-> frame_size_of(cfg)]

\* _close_stream that leaves self.stream set
close_stream_keeps(st) == st

\* _close_stream: stop_stream(), close(), self.stream = None
close_stream(st) == None

\* _open_stream that never assigns self.stream
opened_stream_lost(cfg) == None

\* pyaudio.open(output=True, channels=, rate=, format=, ...)
opened_stream(cfg) ==
    [channels |-> cfg.channels, rate |-> cfg.rate, format |-> format_of(cfg)]

\* max_delay without the sink latency
max_delay_no_sink(cfg, sink) == MaxDelayBase + cfg.latency_msec * 1000

\* max_delay = 0.2 + sink_latency + latency_msec / 1000
max_delay_of(cfg, sink) == MaxDelayBase + sink + cfg.latency_msec * 1000

\* ------------------------------------------------------------- decisions
\* mid_tolerance = self.tolerance / 2
mid_tolerance == tolerance \div 2

\* the boundary taken on the wrong side: item >= 200
huge_loss_inclusive(item) == item >= HugeLoss

\* if item > 200
huge_loss(item) == item > HugeLoss

\* delay = (mark - self.sink_latency) - now
delay_of(mark, now) == (mark - sink_latency) - now

\* if delay < -mid_tolerance
is_late(d) == d < -mid_tolerance

\* over = -delay - mid_tolerance
over_of(d) == -d - mid_tolerance

\* the quotient upside down: random.random() < mid_tolerance / over
draw_drops_inverted(r, d) == r * over_of(d) < mid_tolerance * RandomDen

\* random.random() < over / mid_tolerance, for mid_tolerance > 0
draw_drops(r, d) == r * mid_tolerance < over_of(d) * RandomDen

\* the tolerance applied to both sides: early chunks are dropped as well
should_drop_symmetric(r, d) ==
    LET a == IF d < 0 THEN -d ELSE d
    IN  a > mid_tolerance /\ r * mid_tolerance < (a - mid_tolerance) * RandomDen

\* if delay < -mid_tolerance: ... if random.random() < prob
should_drop(r, d) == is_late(d) /\ draw_drops(r, d)

\* elif delay > max_delay
huge_delay(d) == d > max_delay

\* elif delay > one_msec
in_future(d) == d > one_msec

\* the comparison off by one: buffer_space <= self.chunk_frames
no_space_inclusive(bs, cf) == bs * cf.den <= cf.num

\* if buffer_space < self.chunk_frames
no_space(bs, cf) == bs * cf.den < cf.num

\* the retry cap off by one: times >= 100
output_stuck_early(t) == t >= MaxRetries

\* no retry cap at all
output_stuck_never(t) == FALSE

\* if times > 100
output_stuck(t) == t > MaxRetries

\* the status line one chunk early: recent >= 200
status_due_at(rc) == rc >= StatusEvery

\* if recent > 200
status_due(rc) == rc > StatusEvery

\* took = time() - recent_start: the wall clock has or has not advanced
\* since the window was opened, microseconds.
Elapsed == {0, 1000000}

\* chunks_per_s = recent / took; bs = buffer_space / frames_in_chunk, with
\* frames_in_chunk = len(chunk) / self.frame_size: a division by zero
status_divides(ch, took) == took = 0 \/ ch.len = 0

\* The device really has room for one chunk of the current configuration.
device_has_room(bs) == bs * frame_size_of(audio_cfg) >= audio_cfg.chunk_size

\* ------------------------------------------------------------------ Init
Init ==
    /\ chunk_list = << >>
    /\ chunk_available = FALSE
    /\ recoveries = 0
    /\ tolerance \in Tolerances
    /\ sink_latency \in SinkLatencies
    /\ audio_cfg = None
    /\ stream = None
    /\ open_streams = 0
    /\ peak_streams = 0
    /\ silence_cache = None
    /\ silence_to_insert = 0
    /\ stat_time_drops = 0
    /\ stat_output_delays = 0
    /\ stat_total_delay = 0
    /\ frame_size = 0
    /\ chunk_frames = [num |-> 0, den |-> 1]
    /\ pc = "start"
    /\ cnt = 0
    /\ recent = 0
    /\ max_delay = InitialMaxDelay
    /\ delay = 0
    /\ chunk = NoChunk
    /\ times = 0
    /\ buffer_space = 0
    /\ stall = 0
    /\ delays_before = 0
    /\ stat_lines = 0
    /\ produced = 0
    /\ enqueued = << >>
    /\ last_cfg = None
    /\ written = << >>
    /\ error = "none"

\* ------------------------------------------------------------- producer
\* The receiver appends one event to chunk_list and sets chunk_available;
\* it runs only while the coroutine is suspended (or not yet started).
CanProduceUpTo(n) == pc \in Suspended \cup {"start"} /\ produced < n

CanProduce == CanProduceUpTo(MaxEvents)

PutCfg ==
    /\ CanProduce
    /\ \E c \in Configs :
        /\ chunk_list' = Append(chunk_list, [cmd |-> CMD_CFG, item |-> c])
        /\ last_cfg' = c
    /\ chunk_available' = TRUE
    /\ produced' = produced + 1
    /\ UNCHANGED << recoveries, config_vars, device_vars, silence_to_insert,
                    stat_vars, pc, count_vars, write_vars, enqueued, written, error >>

PutDrops ==
    /\ CanProduce
    /\ \E n \in DropCounts :
        chunk_list' = Append(chunk_list, [cmd |-> CMD_DROPS, item |-> n])
    /\ chunk_available' = TRUE
    /\ produced' = produced + 1
    /\ UNCHANGED << recoveries, config_vars, device_vars, silence_to_insert,
                    stat_vars, pc, count_vars, write_vars, enqueued, last_cfg,
                    written, error >>

\* append (CMD_AUDIO, (mark, chunk)) with a payload of one of the lengths
AppendAudio(lens) ==
    /\ \E m \in Marks, l \in lens :
        LET payload == [id |-> Len(enqueued) + 1, len |-> l]
        IN  /\ chunk_list' = Append(chunk_list,
                    [cmd |-> CMD_AUDIO, item |-> [mark |-> m, chunk |-> payload]])
            /\ enqueued' = Append(enqueued, payload)
    /\ chunk_available' = TRUE
    /\ produced' = produced + 1
    /\ UNCHANGED << recoveries, config_vars, device_vars, silence_to_insert,
                    stat_vars, pc, count_vars, write_vars, last_cfg, written, error >>

PutAudio == CanProduce /\ AppendAudio(PayloadLens)

\* ------------------------------------------------------- the coroutine
\* cnt = 0; recent = 0; max_delay = 5: the coroutine is first scheduled.
Start ==
    /\ pc = "start"
    /\ cnt' = 0
    /\ recent' = 0
    /\ max_delay' = InitialMaxDelay
    /\ pc' = "run"
    /\ UNCHANGED << queue_vars, config_vars, audio_cfg, stream, open_streams,
                    peak_streams, frame_size, chunk_frames, silence_to_insert,
                    stat_vars, write_vars, producer_vars, written, error >>

\* if not chunk_list: chunk_available.clear(); yield from chunk_available.wait()
QueueEmpty ==
    /\ pc = "run"
    /\ chunk_list = << >>
    /\ chunk_available' = FALSE
    /\ pc' = "wait"
    /\ UNCHANGED << chunk_list, recoveries, config_vars, device_vars,
                    silence_to_insert, stat_vars, count_vars, write_vars,
                    producer_vars, written, error >>

\* wait() returns: recent = 0; with a configuration, sleep latency_msec / 4
WakeUp ==
    /\ pc = "wait"
    /\ chunk_available
    /\ recent' = 0
    /\ pc' = IF audio_cfg # None THEN "latency_sleep" ELSE "run"
    /\ UNCHANGED << queue_vars, config_vars, device_vars, silence_to_insert,
                    stat_vars, cnt, write_vars, producer_vars, written, error >>

\* the sleep of latency_msec / 1000 / 4 is over: continue
LatencySleepDone ==
    /\ pc = "latency_sleep"
    /\ pc' = "run"
    /\ UNCHANGED << queue_vars, config_vars, device_vars, silence_to_insert,
                    stat_vars, count_vars, write_vars, producer_vars, written, error >>

\* The head of the queue is popped by this iteration.
Popping(cmd) == pc = "run" /\ chunk_list # << >> /\ popleft(chunk_list).cmd = cmd

\* CMD_CFG: clear_state, close the old stream, _open_stream, max_delay
NewConfig ==
    /\ Popping(CMD_CFG)
    /\ LET item == popleft(chunk_list).item
           s1 == clear_state(popped)
           s2 == clear_state(s1)
           \* if self.stream: self._close_stream()
           closed == IF stream # None THEN close_stream(stream) ELSE stream
           held == IF stream # None THEN open_streams - 1 ELSE open_streams
       IN  /\ audio_cfg' = item
           /\ \/ \* _close_stream raises
                 /\ stream # None
                 /\ chunk_list' = s1.chunk_list
                 /\ silence_to_insert' = s1.silence_to_insert
                 /\ recoveries' = s1.recoveries
                 /\ error' = "close_failed"
                 /\ pc' = "crashed"
                 /\ UNCHANGED << stream, open_streams, peak_streams, frame_size,
                                 chunk_frames, max_delay >>
              \/ \* _open_stream raises: its assertion, before clear_state,
                 \* or pyaudio.open, after it
                 /\ chunk_list' = IF closed # None THEN s1.chunk_list ELSE s2.chunk_list
                 /\ silence_to_insert' = s2.silence_to_insert
                 /\ recoveries' = IF closed # None THEN s1.recoveries ELSE s2.recoveries
                 /\ stream' = closed
                 /\ open_streams' = held
                 /\ error' = IF closed # None THEN "AssertionError" ELSE "open_failed"
                 /\ pc' = "crashed"
                 /\ UNCHANGED << peak_streams, frame_size, chunk_frames, max_delay >>
              \/ \* the stream is open
                 /\ closed = None
                 /\ chunk_list' = s2.chunk_list
                 /\ silence_to_insert' = s2.silence_to_insert
                 /\ recoveries' = s2.recoveries
                 /\ stream' = opened_stream(item)
                 /\ open_streams' = held + 1
                 /\ peak_streams' = IF held + 1 > peak_streams THEN held + 1
                                    ELSE peak_streams
                 /\ frame_size' = frame_size_of(item)
                 /\ chunk_frames' = chunk_frames_of(item)
                 /\ max_delay' = max_delay_of(item, sink_latency)
                 /\ UNCHANGED << pc, error >>
    /\ UNCHANGED << chunk_available, config_vars, stat_vars, count_vars,
                    write_vars, producer_vars, written >>

\* CMD_DROPS: recover after a huge loss, else owe silence
LossNotice ==
    /\ Popping(CMD_DROPS)
    /\ LET item == popleft(chunk_list).item
           s1 == clear_state(popped)
       IN  IF huge_loss(item)
           THEN /\ chunk_list' = s1.chunk_list
                /\ silence_to_insert' = s1.silence_to_insert
                /\ recoveries' = s1.recoveries
           ELSE /\ chunk_list' = popleft(chunk_list).rest
                /\ silence_to_insert' = silence_to_insert + item
                /\ UNCHANGED recoveries
    /\ UNCHANGED << chunk_available, config_vars, device_vars, stat_vars, pc,
                    count_vars, write_vars, producer_vars, written, error >>

\* the "stream is None" test placed after the chunk is counted
DiscardChunk_counted ==
    /\ Popping(CMD_AUDIO)
    /\ stream = None
    /\ chunk_list' = popleft(chunk_list).rest
    /\ cnt' = cnt + 1
    /\ recent' = recent + 1
    /\ UNCHANGED << chunk_available, recoveries, config_vars, device_vars,
                    silence_to_insert, stat_vars, pc, write_vars,
                    producer_vars, written, error >>

\* CMD_AUDIO with self.stream is None: no output, no playing
DiscardChunk ==
    /\ Popping(CMD_AUDIO)
    /\ stream = None
    /\ chunk_list' = popleft(chunk_list).rest
    /\ UNCHANGED << chunk_available, recoveries, config_vars, device_vars,
                    silence_to_insert, stat_vars, pc, count_vars, write_vars,
                    producer_vars, written, error >>

\* Main status line and back to the head of the loop, for the chunk ch
\* and the last capacity answer bs; the other locals of the iteration are
\* dead at the head of the loop and are reset.
Finish(rc, ch, bs) ==
    /\ IF status_due(rc)
       THEN \E took \in Elapsed :
               IF status_divides(ch, took)
               THEN /\ recent' = rc
                    /\ error' = "ZeroDivisionError"
                    /\ pc' = "crashed"
                    /\ UNCHANGED stat_lines
               ELSE /\ recent' = 0
                    /\ stat_lines' = stat_lines + 1
                    /\ pc' = "run"
                    /\ UNCHANGED error
       ELSE /\ recent' = rc
            /\ pc' = "run"
            /\ UNCHANGED << stat_lines, error >>
    /\ delay' = 0
    /\ chunk' = NoChunk
    /\ times' = 0
    /\ buffer_space' = bs
    /\ stall' = 0
    /\ delays_before' = 0

\* One pass of the output loop with times = t: poll the device, then either
\* count an output delay and sleep, or write the chunk.
PollDevice(t, d, ch, rc, st) ==
    \E bs \in DeviceFrames :
        /\ (st > 0) <=> ~device_has_room(bs)
        /\ IF no_space(bs, chunk_frames)
           THEN /\ stat_output_delays' = stat_output_delays + 1
                /\ pc' = "retry_sleep"
                /\ times' = t
                /\ delay' = d
                /\ chunk' = ch
                /\ buffer_space' = bs
                /\ stall' = IF st > 0 THEN st - 1 ELSE 0
                /\ delays_before' = IF t = 0 THEN stat_output_delays ELSE delays_before
                /\ recent' = rc
                /\ UNCHANGED << written, stat_lines, error >>
           ELSE /\ written' = Append(written, ch)
                /\ Finish(rc, ch, bs)
                /\ UNCHANGED stat_output_delays

\* The bookkeeping of every audio chunk played with an open stream.
Account(d) ==
    /\ Popping(CMD_AUDIO)
    /\ stream # None
    /\ chunk_list' = popleft(chunk_list).rest
    /\ stat_total_delay' = stat_total_delay + d
    /\ cnt' = cnt + 1
    /\ UNCHANGED << chunk_available, config_vars, device_vars, producer_vars >>

\* late chunk, tolerance 0: over / mid_tolerance divides by zero
DropDivides ==
    \E now \in Nows :
        LET d == delay_of(popleft(chunk_list).item.mark, now)
        IN  /\ Account(d)
            /\ is_late(d)
            /\ mid_tolerance = 0
            /\ recent' = recent + 1
            /\ error' = "ZeroDivisionError"
            /\ pc' = "crashed"
            /\ UNCHANGED << recoveries, silence_to_insert, stat_time_drops,
                            stat_output_delays, stat_lines, write_vars, written >>

\* late chunk and random.random() < prob: drop it
DropChunk ==
    \E now \in Nows, r \in Randoms :
        LET d == delay_of(popleft(chunk_list).item.mark, now)
        IN  /\ Account(d)
            /\ mid_tolerance # 0
            /\ should_drop(r, d)
            /\ recent' = recent + 1
            /\ stat_time_drops' = stat_time_drops + 1
            /\ UNCHANGED << recoveries, silence_to_insert, stat_output_delays,
                            stat_lines, pc, write_vars, written, error >>

\* late chunk that the draw spares: straight to the output loop
PlayLate ==
    \E now \in Nows, r \in Randoms, st \in StallLengths :
        LET d == delay_of(popleft(chunk_list).item.mark, now)
        IN  /\ Account(d)
            /\ is_late(d)
            /\ mid_tolerance # 0
            /\ ~should_drop(r, d)
            /\ PollDevice(0, d, popleft(chunk_list).item.chunk, recent + 1, st)
            /\ UNCHANGED << recoveries, silence_to_insert, stat_time_drops >>

\* delay > max_delay: huge recovery
HugeDelay ==
    \E now \in Nows :
        LET d == delay_of(popleft(chunk_list).item.mark, now)
            s1 == clear_state(popped)
        IN  /\ Account(d)
            /\ ~is_late(d)
            /\ huge_delay(d)
            /\ recent' = recent + 1
            /\ chunk_list' = s1.chunk_list
            /\ silence_to_insert' = s1.silence_to_insert
            /\ recoveries' = s1.recoveries
            /\ UNCHANGED << stat_time_drops, stat_output_delays, stat_lines,
                            pc, write_vars, written, error >>

\* delay > one_msec: sleep until the chunk is due
WaitChunk ==
    \E now \in Nows :
        LET d == delay_of(popleft(chunk_list).item.mark, now)
        IN  /\ Account(d)
            /\ ~is_late(d)
            /\ ~huge_delay(d)
            /\ in_future(d)
            /\ recent' = recent + 1
            /\ delay' = d
            /\ chunk' = popleft(chunk_list).item.chunk
            /\ pc' = "pre_write_sleep"
            /\ UNCHANGED << recoveries, silence_to_insert, stat_time_drops,
                            stat_output_delays, stat_lines, times, buffer_space,
                            stall, delays_before, written, error >>

\* the chunk is due now: straight to the output loop
PlayNow ==
    \E now \in Nows, st \in StallLengths :
        LET d == delay_of(popleft(chunk_list).item.mark, now)
        IN  /\ Account(d)
            /\ ~is_late(d)
            /\ ~huge_delay(d)
            /\ ~in_future(d)
            /\ PollDevice(0, d, popleft(chunk_list).item.chunk, recent + 1, st)
            /\ UNCHANGED << recoveries, silence_to_insert, stat_time_drops >>

\* the sleep before the write is over: times = 0, first capacity poll
PreWriteSleepDone ==
    /\ pc = "pre_write_sleep"
    /\ \E st \in StallLengths : PollDevice(0, delay, chunk, recent, st)
    /\ UNCHANGED << queue_vars, config_vars, device_vars, silence_to_insert,
                    stat_time_drops, stat_total_delay, cnt, producer_vars >>

\* the retry sleep is over: times += 1, then give up or poll again
RetrySleepDone ==
    /\ pc = "retry_sleep"
    /\ IF output_stuck(times + 1)
       THEN /\ times' = times + 1
            /\ pc' = "stuck_sleep"
            /\ UNCHANGED << delay, chunk, buffer_space, stall, delays_before, recent,
                            stat_output_delays, stat_lines, written, error >>
       ELSE PollDevice(times + 1, delay, chunk, recent, stall)
    /\ UNCHANGED << queue_vars, config_vars, device_vars, silence_to_insert,
                    stat_time_drops, stat_total_delay, cnt, producer_vars >>

\* the one-second sleep of a stuck output is over: break
StuckSleepDone ==
    /\ pc = "stuck_sleep"
    /\ Finish(recent, chunk, buffer_space)
    /\ UNCHANGED << queue_vars, config_vars, device_vars, silence_to_insert,
                    stat_time_drops, stat_output_delays, stat_total_delay, cnt,
                    producer_vars, written >>

Producer == PutCfg \/ PutDrops \/ PutAudio

Player ==
    \/ Start \/ QueueEmpty \/ WakeUp \/ LatencySleepDone
    \/ NewConfig \/ LossNotice \/ DiscardChunk
    \/ DropDivides \/ DropChunk \/ PlayLate \/ HugeDelay \/ WaitChunk \/ PlayNow
    \/ PreWriteSleepDone \/ RetrySleepDone \/ StuckSleepDone

Next == Producer \/ Player

Spec == Init /\ [][Next]_vars

\* The sleeps of the output writer are finite: asyncio resumes the coroutine.
FairSpec ==
    /\ Spec
    /\ WF_vars(PreWriteSleepDone)
    /\ WF_vars(RetrySleepDone)
    /\ WF_vars(StuckSleepDone)

\* ---------------------------------------------------- get_silent_chunk
\* b'\x00' * n: a buffer of n zero bytes
zeros(n) == [len |-> n, fill |-> 0]

\* What get_silent_chunk() returns: the cached buffer if there is one, else
\* a new buffer of audio_cfg['chunk_size'] zero bytes.
silent_chunk_of(cache, cfg) ==
    IF cache # None THEN cache ELSE zeros(cfg.chunk_size)

\* get_silent_chunk(): the buffer it returns is cached. It is called by other
\* code of the process, hence while the coroutine is suspended.
GetSilentChunk ==
    /\ pc \in Suspended
    /\ audio_cfg # None
    /\ silence_cache' = silent_chunk_of(silence_cache, audio_cfg)
    /\ UNCHANGED << queue_vars, tolerance, sink_latency, device_vars,
                    silence_to_insert, stat_vars, pc, count_vars, write_vars,
                    producer_vars, written, error >>

SilenceNext == Next \/ GetSilentChunk

\* The player with callers of get_silent_chunk.
SilenceSpec == Init /\ [][SilenceNext]_vars

\* ------------------------------------------- a window about to be reported
\* Events the producer still enqueues in a run that starts from StatInit.
StatMore == 1

\* Payload lengths of the chunks around the status line: none and a full one.
StatPayloadLens == {0, 4096}

\* The chunks of one burst counted so far in the window, all dropped for
\* being late by StatBurstDelay, which is beyond the tolerance.
StatBurst == StatusEvery - 1
StatBurstDelay == -150000

\* The loop in the middle of a burst: a CMD_CFG (CfgA) was applied, the queue
\* ran empty, the producer enqueued StatBurst + 1 audio chunks, the loop woke
\* up (recent = 0) and has since popped and dropped StatBurst of them without
\* suspending; the last one is pending.
StatInit ==
    /\ \E l \in PayloadLens, m \in Marks :
          /\ enqueued = [i \in 1..(StatBurst + 1) |-> [id |-> i, len |-> l]]
          /\ chunk_list = << [cmd |-> CMD_AUDIO,
                              item |-> [mark |-> m, chunk |-> enqueued[StatBurst + 1]]] >>
    /\ chunk_available = TRUE
    /\ recoveries = 2
    /\ tolerance \in {t \in Tolerances : 2 * (-StatBurstDelay) - t >= t /\ t > 0}
    /\ sink_latency \in SinkLatencies
    /\ audio_cfg = CfgA
    /\ stream = opened_stream(CfgA)
    /\ open_streams = 1
    /\ peak_streams = 1
    /\ silence_cache = None
    /\ silence_to_insert = 0
    /\ stat_time_drops = StatBurst
    /\ stat_output_delays = 0
    /\ stat_total_delay = StatBurst * StatBurstDelay
    /\ frame_size = frame_size_of(CfgA)
    /\ chunk_frames = chunk_frames_of(CfgA)
    /\ pc = "run"
    /\ cnt = StatBurst
    /\ recent = StatBurst
    /\ max_delay = max_delay_of(CfgA, sink_latency)
    /\ delay = 0
    /\ chunk = NoChunk
    /\ times = 0
    /\ buffer_space = 0
    /\ stall = 0
    /\ delays_before = 0
    /\ stat_lines = 0
    /\ produced = StatBurst + 2
    /\ enqueued # << >>
    /\ last_cfg = CfgA
    /\ written = << >>
    /\ error = "none"

\* The producer goes on with audio chunks, empty ones included.
StatPutAudio ==
    /\ CanProduceUpTo(StatBurst + 2 + StatMore)
    /\ AppendAudio(StatPayloadLens)

\* The loop while a stream is open and only audio chunks arrive.
StatPlayer ==
    \/ QueueEmpty \/ WakeUp \/ LatencySleepDone
    \/ DropChunk \/ PlayLate \/ HugeDelay \/ WaitChunk \/ PlayNow
    \/ PreWriteSleepDone \/ RetrySleepDone \/ StuckSleepDone

StatNext == StatPutAudio \/ StatPlayer

StatSpec == StatInit /\ [][StatNext]_vars

\* Fair scheduling: asyncio resumes the coroutine whenever it can run, its
\* sleeps are finite, and a set chunk_available ends its wait.
FairLoopSpec == Spec /\ WF_vars(Player)

\* ------------------------------------------------------------- properties
Range(seq) == {seq[i] : i \in 1..Len(seq)}

IsCfg(e) == e.cmd = CMD_CFG

CfgCount(list) == Cardinality({i \in 1..Len(list) : IsCfg(list[i])})

\* The event popped by the step and the events pending behind it.
Event == popleft(chunk_list)
Pending == Tail(chunk_list)

\* delay computed by a step that plays an audio chunk with an open stream
StepDelay == stat_total_delay' - stat_total_delay

PlaysChunk == Popping(CMD_AUDIO) /\ stream # None /\ cnt' = cnt + 1

\* Steps of the loop that call clear_state, and how many times they call it.
LossRecovery == LossNotice /\ Event.item > HugeLoss
CallsClearState == LossRecovery \/ HugeDelay \/ NewConfig
ClearCalls == IF NewConfig /\ error' # "close_failed" THEN 2 ELSE 1

\* C1: after any call of clear_state the queue holds at most one event; if
\* a CMD_CFG was pending it holds exactly one event, a CMD_CFG;
\* silence_to_insert is 0; do_recovery was invoked once per call.
C1_ClearState ==
    [][CallsClearState =>
        /\ Len(chunk_list') <= 1
        /\ CfgCount(Pending) >= 1 =>
              Len(chunk_list') = 1 /\ IsCfg(chunk_list'[1])
        /\ silence_to_insert' = 0
        /\ recoveries' = recoveries + ClearCalls]_vars

\* A huge loss was recovered while a CMD_CFG and another event were pending:
\* the CMD_CFG alone is left, before any configuration was applied.
C1_Witness ==
    /\ pc = "run"
    /\ recoveries = 1
    /\ audio_cfg = None
    /\ produced = 3
    /\ Len(chunk_list) = 1
    /\ IsCfg(chunk_list[1])
    /\ silence_to_insert = 0

\* The most recent CMD_CFG of a list.
latest_cfg(list) ==
    list[CHOOSE i \in 1..Len(list) :
            IsCfg(list[i]) /\ \A j \in 1..Len(list) : IsCfg(list[j]) => j <= i].item

\* C2: when two or more CMD_CFG are pending, the one clear_state leaves in
\* the queue is the most recent one, and nothing else is left.
C2_KeepsLatest ==
    [][CallsClearState /\ CfgCount(Pending) >= 2 =>
        chunk_list' = << [cmd |-> CMD_CFG, item |-> latest_cfg(Pending)] >>]_vars

\* C3: once the loop has drained the queue and waits for an item, audio_cfg
\* is the payload of the latest CMD_CFG the producer enqueued.
C3_LastConfigWins ==
    (pc = "wait" /\ chunk_list = << >> /\ last_cfg # None) => audio_cfg = last_cfg

\* C4: a CMD_DROPS of more than 200 packets always runs clear_state (at most
\* one event left, a CMD_CFG; silence_to_insert = 0; do_recovery invoked);
\* one of 200 or fewer only adds its count to silence_to_insert and leaves
\* the rest of the queue, the stream and the recovery hook alone.
C4_LossBoundary ==
    [][LossNotice =>
        IF Event.item > HugeLoss
        THEN /\ Len(chunk_list') <= 1
             /\ \A i \in 1..Len(chunk_list') : IsCfg(chunk_list'[i])
             /\ silence_to_insert' = 0
             /\ recoveries' = recoveries + 1
        ELSE /\ silence_to_insert' = silence_to_insert + Event.item
             /\ chunk_list' = Pending
             /\ stream' = stream
             /\ recoveries' = recoveries]_vars

\* A loss of 201 was recovered (the only recovery so far, no configuration
\* yet) and later a loss of exactly 200 was added to silence_to_insert.
C4_Witness ==
    /\ pc = "run"
    /\ audio_cfg = None
    /\ recoveries = 1
    /\ silence_to_insert = HugeLoss
    /\ chunk_list = << >>

\* C5: the payloads written to the device are, in order, a subsequence of
\* the audio payloads the producer enqueued: nothing foreign, nothing twice,
\* nothing out of queue order.
C5_WriteOrder ==
    /\ \A i \in 1..Len(written) :
          /\ written[i].id \in 1..Len(enqueued)
          /\ enqueued[written[i].id] = written[i]
    /\ \A i, j \in 1..Len(written) : i < j => written[i].id < written[j].id

\* Two chunks were written, the second one after backpressure retries.
C5_Witness ==
    /\ Len(written) = 2
    /\ stat_output_delays > 0
    /\ pc = "run"

\* C6 (amended): while a chunk is retried, stat_output_delays has grown by
\* one per failed poll; after the 101st failed poll (the 100th retry) the
\* write is abandoned without a further poll, and stat_output_delays has then
\* been incremented exactly 101 times for that chunk.
C6_Abandon101 ==
    /\ [](pc = "retry_sleep" =>
            /\ times \in 0..MaxRetries
            /\ stat_output_delays = delays_before + times + 1)
    /\ [](pc = "stuck_sleep" =>
            /\ times = MaxRetries + 1
            /\ stat_output_delays = delays_before + MaxRetries + 1)
    /\ [][pc = "retry_sleep" /\ times = MaxRetries /\ pc' # pc =>
            pc' = "stuck_sleep" /\ written' = written]_vars

\* The output is stuck: the write of the chunk has just been abandoned.
C6_Witness ==
    /\ pc = "stuck_sleep"
    /\ stall > 0
    /\ stat_output_delays = MaxRetries + 1

\* C6 as claimed: an abandoned write has counted exactly 100 output delays.
C6_Abandon100 ==
    pc = "stuck_sleep" => stat_output_delays = delays_before + MaxRetries

OutputLoop == {"pre_write_sleep", "retry_sleep", "stuck_sleep"}

\* A step that leaves the output loop: the chunk is written, or the write was
\* abandoned and nothing else has changed.
LeavesOutputLoop ==
    pc \in OutputLoop /\ pc' \notin OutputLoop =>
        /\ (pc = "stuck_sleep" => written' = written)
        /\ (pc # "stuck_sleep" => written' = Append(written, chunk))
        /\ pc' = "run"
        /\ error' = "none"
        /\ stream' = stream /\ stream # None
        /\ chunk_list' = chunk_list

RecoversHugeDelay ==
    PlaysChunk /\ StepDelay > MaxDelayBase + sink_latency + audio_cfg.latency_msec * 1000 =>
        /\ recoveries' = recoveries + 1
        /\ chunk_list' = cleared_list(Pending)
        /\ silence_to_insert' = 0
        /\ pc' = "run"
        /\ written' = written
        /\ stat_time_drops' = stat_time_drops
        /\ stat_output_delays' = stat_output_delays

\* C8: with a stream open and the loop alive, max_delay = 0.2 s + sink_latency + latency_msec;
\* a chunk whose delay exceeds it triggers clear_state and is neither waited
\* for nor written.
C8_HugeDelay ==
    /\ [](stream # None /\ error = "none" =>
            max_delay = MaxDelayBase + sink_latency + audio_cfg.latency_msec * 1000)
    /\ [][RecoversHugeDelay]_vars

\* sink_latency 0.1 s and latency_msec 100 give max_delay 0.4 s; a chunk
\* with delay 0.5 s was recovered from (third recovery: two by the
\* configuration) and not written.
C8_Witness ==
    /\ audio_cfg = CfgA
    /\ stream # None
    /\ max_delay = 400000
    /\ cnt = 1
    /\ stat_total_delay = 500000
    /\ recoveries = 3
    /\ written = << >>
    /\ pc = "run"

\* C9: a chunk played with an open stream whose delay is >= -tolerance / 2 is
\* never dropped, whatever the draw: stat_time_drops is unchanged.
C9_NeverDropsInTolerance ==
    [][PlaysChunk /\ 2 * StepDelay >= -tolerance =>
            stat_time_drops' = stat_time_drops]_vars

\* A chunk late by exactly half the tolerance was played: written, not dropped.
C9_Witness ==
    /\ tolerance = 100000
    /\ cnt = 1
    /\ stat_total_delay = -50000
    /\ stat_time_drops = 0
    /\ Len(written) = 1

C11_OnlyDeviceFailureEnds ==
    error \in {"none", "open_failed", "close_failed"}

\* A CMD_CFG processed while a stream is open, the new stream opening.
Reconfigures == NewConfig /\ stream # None /\ error' = "none"

\* C12: a CMD_CFG closes the open stream before it opens the new one, so the
\* device never holds two streams; while the loop runs at most one stream is
\* open, the one opened with the parameters of the current audio_cfg; the
\* assertion "self.stream is None" of _open_stream never fails.
C12_OneStream ==
    /\ [](peak_streams <= 1 /\ error # "AssertionError")
    /\ [](pc # "crashed" =>
            /\ open_streams = (IF stream # None THEN 1 ELSE 0)
            /\ stream # None => stream = opened_stream(audio_cfg))
    /\ [][Reconfigures => open_streams = 1 /\ open_streams' = 1]_vars

\* Two configurations were applied one after the other: the stream open now
\* is the one of the second, and the device holds it alone.
C12_Witness ==
    /\ pc = "run"
    /\ recoveries = 4
    /\ audio_cfg = CfgB
    /\ stream = opened_stream(CfgB)
    /\ open_streams = 1
    /\ peak_streams = 1

\* A full recovery: clear_state after a huge loss or a huge delay.
FullRecovery == LossRecovery \/ HugeDelay

\* C13: while device opens succeed, at every iteration boundary the stream
\* is set exactly when audio_cfg is set; a full recovery changes neither.
C13_StreamIffConfig ==
    /\ [](error = "none" => ((stream # None) <=> (audio_cfg # None)))
    /\ [][FullRecovery => stream' = stream /\ audio_cfg' = audio_cfg]_vars

\* A huge loss was recovered from with a stream open: the stream and the
\* configuration are still there.
C13_Witness ==
    /\ pc = "run"
    /\ error = "none"
    /\ recoveries = 3
    /\ produced = 2
    /\ audio_cfg = CfgA
    /\ stream = opened_stream(CfgA)

\* C14: an audio chunk popped while no stream is open is discarded and
\* nothing else happens: nothing is written, no statistic and no counter
\* moves, silence_to_insert and the rest of the queue stay, clear_state is
\* not called, and the loop goes on without suspending.
C14_DiscardNoEffect ==
    [][Popping(CMD_AUDIO) /\ stream = None =>
        /\ chunk_list' = Pending
        /\ pc' = "run"
        /\ UNCHANGED << written, stat_vars, count_vars, silence_to_insert,
                        recoveries, chunk_available, device_vars, config_vars,
                        write_vars, producer_vars, error >>]_vars

\* The only event produced, an audio chunk, was popped with no stream open:
\* it is gone and nothing was counted or written.
C14_Witness ==
    /\ pc = "run"
    /\ stream = None
    /\ Len(enqueued) = 1
    /\ produced = 1
    /\ chunk_list = << >>
    /\ cnt = 0
    /\ recent = 0
    /\ stat_total_delay = 0
    /\ written = << >>

\* The window count of the chunk a step handles, that chunk included.
WindowCount == IF pc = "run" THEN recent + 1 ELSE recent

\* The payload of the chunk a step handles.
StepChunk == IF pc = "run" THEN Event.item.chunk ELSE chunk

\* A step with which a chunk leaves the output writer, written or abandoned.
LeavesWriter == written' # written \/ (pc = "stuck_sleep" /\ pc' # "stuck_sleep")

\* C15 as stated: the chunk that brings the window count to 200 is reported
\* when it is done with, and the window count is reset to 0.
C15_Every200 ==
    [][/\ WindowCount = StatusEvery
       /\ (cnt' = cnt + 1 \/ pc \in OutputLoop)
       /\ pc' \notin OutputLoop
       => stat_lines' = stat_lines + 1 /\ recent' = 0]_vars

\* What a step may do to the status line.
ReportsAfter200 ==
    /\ stat_lines' # stat_lines =>
          /\ stat_lines' = stat_lines + 1
          /\ recent' = 0
          /\ LeavesWriter
          /\ WindowCount > StatusEvery
    /\ LeavesWriter /\ WindowCount > StatusEvery =>
          \/ stat_lines' = stat_lines + 1 /\ recent' = 0 /\ error' = "none"
          \/ stat_lines' = stat_lines /\ error' = "ZeroDivisionError"
    /\ LeavesWriter /\ WindowCount > StatusEvery /\ StepChunk.len = 0 =>
          error' = "ZeroDivisionError"
    /\ LeavesWriter /\ WindowCount <= StatusEvery =>
          stat_lines' = stat_lines /\ recent' = WindowCount

\* C15, amended: a snapshot is printed only with a chunk that leaves the
\* output writer (written or abandoned) as more than the 200th of its window,
\* the 201st at the earliest; such a chunk prints one snapshot and resets the
\* window count to 0, or the status line divides by zero (empty payload, no
\* time elapsed) and ends the loop; dropped and recovered chunks print none.
C15_After200 == [][ReportsAfter200]_vars

\* The 200th chunk of the window went by without a report; the 201st was
\* written and reported, and the window count is 0 again.
C15_Witness ==
    /\ pc = "run"
    /\ error = "none"
    /\ cnt = StatusEvery + 1
    /\ stat_lines = 1
    /\ recent = 0
    /\ Len(written) >= 1

\* C16: whenever get_silent_chunk is called with an audio_cfg set, however
\* the calls interleave with the CMD_CFG events processed, it returns a
\* buffer of zeros as long as the chunk_size of the current audio_cfg.
C16_SilenceMatchesConfig ==
    pc \in Suspended /\ audio_cfg # None =>
        silent_chunk_of(silence_cache, audio_cfg) = zeros(audio_cfg.chunk_size)

\* clear_state called now, and called again right after.
ClearedOnce ==
    clear_state([chunk_list |-> chunk_list,
                 silence_to_insert |-> silence_to_insert,
                 recoveries |-> recoveries])
ClearedTwice == clear_state(ClearedOnce)

\* The two calls of clear_state a CMD_CFG makes in a row (the branch itself,
\* then _open_stream) leave what the first call alone leaves.
SecondCallChangesNothing ==
    NewConfig /\ error' = "none" =>
        /\ chunk_list' = clear_state(popped).chunk_list
        /\ silence_to_insert' = clear_state(popped).silence_to_insert
        /\ recoveries' = clear_state(popped).recoveries + 1

\* C17: clear_state is idempotent: a second call right after a first leaves
\* the queue and silence_to_insert as the first left them, only do_recovery
\* is invoked once more; on an empty queue it leaves the queue empty and
\* silence_to_insert 0.
C17_ClearStateIdempotent ==
    /\ [](/\ ClearedTwice.chunk_list = ClearedOnce.chunk_list
          /\ ClearedTwice.silence_to_insert = ClearedOnce.silence_to_insert
          /\ ClearedTwice.recoveries = ClearedOnce.recoveries + 1)
    /\ [](chunk_list = << >> =>
            ClearedOnce.chunk_list = << >> /\ ClearedOnce.silence_to_insert = 0)
    /\ [][SecondCallChangesNothing]_vars

\* A CMD_CFG was applied with another CMD_CFG pending behind it: clear_state
\* ran twice in a row and the pending CMD_CFG is what the queue holds.
C17_Witness ==
    /\ pc = "run"
    /\ error = "none"
    /\ recoveries = 2
    /\ stream # None
    /\ Len(chunk_list) = 1
    /\ IsCfg(chunk_list[1])
    /\ silence_to_insert = 0

\* A step in which stream.get_write_available() is called.
PollStep ==
    \/ PlayNow
    \/ PlayLate
    \/ PreWriteSleepDone
    \/ RetrySleepDone /\ pc' # "stuck_sleep"

\* The poll of the step answered fewer frames than one chunk takes.
AnsweredLess ==
    buffer_space' * (IF audio_cfg.sample = 24 THEN 3 * audio_cfg.channels
                     ELSE 2 * audio_cfg.channels) < audio_cfg.chunk_size

\* What a step may write, and what a capacity poll leads to.
WritesAfterRoom ==
    /\ written' # written =>
          /\ PollStep
          /\ ~AnsweredLess
          /\ written' = Append(written, StepChunk)
    /\ stat_output_delays' # stat_output_delays => PollStep /\ AnsweredLess
    /\ PollStep /\ AnsweredLess =>
          /\ stat_output_delays' = stat_output_delays + 1
          /\ written' = written
    /\ PollStep /\ ~AnsweredLess =>
          /\ stat_output_delays' = stat_output_delays
          /\ written' = Append(written, StepChunk)

\* C18: a chunk is written only in the step of a capacity poll that answered
\* at least chunk_frames frames, chunk_frames being chunk_size / frame_size
\* and frame_size 3 * channels for 24-bit samples, else 2 * channels; every
\* poll that answers less adds exactly one to stat_output_delays and writes
\* nothing.
C18_WriteNeedsRoom ==
    /\ [](stream # None /\ pc # "crashed" =>
            /\ frame_size = (IF audio_cfg.sample = 24 THEN 3 * audio_cfg.channels
                             ELSE 2 * audio_cfg.channels)
            /\ chunk_frames.num = audio_cfg.chunk_size
            /\ chunk_frames.den = frame_size)
    /\ [][WritesAfterRoom]_vars

\* With 24-bit samples (frame_size 6) a poll answered 1023 frames, one short
\* of chunk_frames, and the next one 1024: one output delay, then the write.
C18_Witness ==
    /\ pc = "run"
    /\ audio_cfg = CfgB
    /\ frame_size = 6
    /\ buffer_space = 1024
    /\ stat_output_delays = 1
    /\ Len(written) = 1

\* C19: with a producer that appends and sets chunk_available in one go, and
\* only while the loop is suspended, the loop is never suspended in wait()
\* with a non-empty queue and chunk_available clear; and under fair
\* scheduling every enqueued event is eventually popped or discarded by
\* clear_state, so a non-empty queue is eventually emptied (a failure to
\* open or close the device, the one way the loop is meant to end, aside).
C19_NoLostWakeup ==
    /\ [](pc = "wait" /\ chunk_list # << >> => chunk_available)
    /\ (chunk_list # << >> ~>
            (chunk_list = << >> \/ error \in {"open_failed", "close_failed"}))

=============================================================================
